---- MODULE Spec2Model ----
(***************************************************************************)
(* Model of the chat-turn endpoint of spur (src/app/api/chat/route.ts),    *)
(* the memory accessors (src/lib/memory.ts), the completion wrappers       *)
(* (src/lib/clientUtils.ts, the lib/llm part) and the history endpoint     *)
(* (src/app/api/chat/history/route.ts).                                    *)
(*                                                                         *)
(* A text is a sequence of tokens; the token " " is white space.  Rows of  *)
(* the three tables are kept in insertion order and carry the created_at   *)
(* value the store gave them: the ordinal of the insert statement within   *)
(* its table (all rows of one statement share it).  Every await on the     *)
(* store is one step of a request, so requests and title callbacks         *)
(* interleave at exactly the places the handler can be suspended.          *)
(***************************************************************************)
EXTENDS Integers, Sequences, FiniteSets, TLC

\* ---------------------------------------------------------------- bounds
\* requests that reach the store
MaxTurns == 2
\* visits of the chat page
MaxVisits == 2
\* store operations that may fail in one run
MaxStoreFaults == 1
\* completion calls that may fail in one run
MaxLlmFaults == 1

\* ------------------------------------------------------------- JS values
Undefined == [type |-> "undefined", val |-> <<>>]
Str(s) == [type |-> "string", val |-> s]
Num(s) == [type |-> "number", val |-> s]

\* !v is false
Truthy(v) == \/ v.type = "string" /\ v.val # <<>>
             \/ v.type = "number" /\ v.val # <<"0">>

RECURSIVE trimStart(_)
trimStart(s) == IF s # <<>> /\ Head(s) = " " THEN trimStart(Tail(s)) ELSE s

RECURSIVE trimEnd(_)
trimEnd(s) == IF s # <<>> /\ s[Len(s)] = " " THEN trimEnd(SubSeq(s, 1, Len(s) - 1)) ELSE s

\* String.prototype.trim
trim(s) == trimEnd(trimStart(s))

\* ------------------------------------------------------- fixed strings
NewChat == <<"New Chat">>
NewConversation == <<"New Conversation">>
ApologyEmpty == <<"I apologize, but I could not generate a response at this time. Please try again.">>
ApologyError == <<"I apologize, but I am currently experiencing technical difficulties. Please try again in a moment.">>
ErrUserId == "User ID (Name) is required."
ErrNamed == "Failed to create new named conversation."
ErrMessage == "Message content is required."
ErrStart == "Failed to start new conversation."
ErrNotFound == "Conversation not found or access denied."
ErrInternal == "Internal Server Error"
ThrownSaveUser == "Failed to save user message"
ThrownHistory == "Failed to fetch history"

\* ------------------------------------------------------- request inputs
UserIds == {Undefined, Str(<<" ">>), Num(<<"7">>), Str(<<"a">>), Str(<<"b">>)}
Messages == {Undefined, Str(<<" ">>), Num(<<"7">>), Str(<<"m">>)}
Names == {Undefined, Str(<<"Support">>)}

\* what the completion capability can answer
GenOutcomes == {"throw", "empty", "ok"}
Reply == <<"reply">>
TitleOutcomes == {"throw", "empty", "blank", "ok"}
Title == <<"Sticky Keyboard Keys Issue">>
ExtractOutcomes == {"throw", "empty", "unparseable", "nofacts", "facts"}

VARIABLES conversations, messages, memories, turn, titleTasks,
          turns, storeFaults, llmFaults,
          titleAttempts, okTurns, lastOkMem, page

vars == <<conversations, messages, memories, turn, titleTasks,
          turns, storeFaults, llmFaults,
          titleAttempts, okTurns, lastOkMem, page>>

\* ------------------------------------------------------------ the store
Procs == {"p1", "p2"}

ValidUsers == {<<"a">>, <<"b">>}

\* rows of `conversations`: [id, user_id, name, created_at]
\* rows of `messages`: [id, conversation_id, sender, content, created_at]
\* rows of `memories`: [id, user_id, content, created_at]

Range(s) == {s[i] : i \in DOMAIN s}

RECURSIVE OrderedBy(_)
\* .order('created_at', { ascending: true }): every ordering of the rows
\* with non-decreasing created_at (rows of equal created_at in any order)
OrderedBy(rows) ==
  IF rows = {} THEN {<<>>}
  ELSE LET first == {r \in rows : \A q \in rows : r.created_at <= q.created_at}
       IN  UNION {{<<r>> \o rest : rest \in OrderedBy(rows \ {r})} : r \in first}

\* from('messages').select(...).eq('conversation_id', id).order('created_at')
SelectMessages(id) ==
  OrderedBy({m \in Range(messages) : m.conversation_id = id})

RECURSIVE NewestFirst(_)
NewestFirst(rows) ==
  IF rows = {} THEN {<<>>}
  ELSE LET first == {r \in rows : \A q \in rows : r.created_at >= q.created_at}
       IN  UNION {{<<r>> \o rest : rest \in NewestFirst(rows \ {r})} : r \in first}

\* the memory read with { ascending: false }
SelectMemories_Descending(userId) ==
  NewestFirst({m \in Range(memories) : m.user_id = userId})

\* the memory read without the user_id filter
SelectMemories_AllUsers(userId) == OrderedBy(Range(memories))

\* from('memories').select('content').eq('user_id', userId).order('created_at')
SelectMemories(userId) ==
  OrderedBy({m \in Range(memories) : m.user_id = userId})

\* from('conversations').select('id').eq('id', id).eq('user_id', userId).single()
SelectConversation(id, userId) ==
  {c \in Range(conversations) : c.id = id /\ c.user_id = userId}

\* the outcomes a store operation can have in the current state
StoreErrors == IF storeFaults < MaxStoreFaults THEN BOOLEAN ELSE {FALSE}

StoreResult(error) == storeFaults' = storeFaults + (IF error THEN 1 ELSE 0)

LlmFailures == {"throw", "empty", "blank", "unparseable"}

\* the outcomes a completion call can have in the current state
LlmOutcomes(all) == IF llmFaults < MaxLlmFaults THEN all ELSE all \ LlmFailures

LlmResult(outcome) ==
  llmFaults' = llmFaults + (IF outcome \in LlmFailures THEN 1 ELSE 0)

\* ---------------------------------------------------- request handling
NoBody == [error |-> "", reply |-> <<>>, sessionId |-> 0, messages |-> <<>>]
NoEffect == [convs |-> 0, user |-> 0, ai |-> 0, mems |-> 0,
             gen |-> 0, title |-> 0, extract |-> 0]

IdleTurn ==
  [pc |-> "idle", route |-> "chat", userId |-> Undefined, message |-> Undefined,
   name |-> Undefined, sessionId |-> 0, conversationId |-> 0,
   histDone |-> FALSE, memDone |-> FALSE,
   historyResult |-> [error |-> FALSE, data |-> <<>>],
   memories |-> <<>>, memRows |-> <<>>, memError |-> FALSE,
   sent |-> <<>>,
   aiResponse |-> <<>>, genOutcome |-> "none", extractOutcome |-> "none",
   extractError |-> FALSE,
   msgBase |-> 0, userMsgId |-> 0, aiMsgId |-> 0, thrown |-> "",
   status |-> 0, body |-> NoBody, eff |-> NoEffect]

\* the chat page before it is opened: a page that is not open has no React
\* state, only the localStorage of the browser (storage) and what the browser
\* did so far: enteredAs is the userId the page took from the name dialog,
\* enteredVisit the visit that was in, and made the conversations created in
\* that visit
ClosedPage ==
  [open |-> FALSE, visit |-> 0,
   storage |-> [name |-> Undefined, display |-> Undefined],
   enteredAs |-> Undefined, enteredVisit |-> 0, made |-> {}]

Init ==
  /\ page = ClosedPage
  /\ conversations = <<>>
  /\ messages = <<>>
  /\ memories = <<>>
  /\ turn = [p \in Procs |-> IdleTurn]
  /\ titleTasks = {}
  /\ turns = 0
  /\ storeFaults = 0
  /\ llmFaults = 0
  /\ titleAttempts = <<>>
  /\ okTurns = <<>>
  /\ lastOkMem = [u \in ValidUsers |-> {}]

\* line 20: the userId check passes
ValidUserId(userId) ==
  ~(~Truthy(userId) \/ userId.type # "string" \/ trim(userId.val) = <<>>)

\* line 25: a name-only creation request
NamedCreation(message, name) == ~Truthy(message) /\ Truthy(name)

\* a message check that does not trim
ValidMessage_NoTrim(message) ==
  ~(~Truthy(message) \/ message.type # "string" \/ message.val = <<>>)

\* line 39: the message check passes
ValidMessage(message) ==
  ~(~Truthy(message) \/ message.type # "string" \/ trim(message.val) = <<>>)

\* the ownership check without the user_id filter
OwnershipVerified_AnyOwner(error, id, userId) ==
  ~(error \/ ~\E c \in Range(conversations) : c.id = id)

\* line 66: the ownership check passes (error: the read itself failed)
OwnershipVerified(error, id, userId) ==
  ~(error \/ SelectConversation(id, userId) = {})

Body(userId, message, name, sessionId) ==
  [userId |-> userId, message |-> message, name |-> name, sessionId |-> sessionId]

\* the users that requests are tried for when n conversations exist: "a" and
\* "b" are interchangeable until one of them owns a conversation, so the
\* first conversation is taken to be created by "a"
Callers(n) == IF n = 0 THEN {Str(<<"a">>)} ELSE {Str(<<"a">>), Str(<<"b">>)}

\* the userId values tried: those that fail validation, and the callers
Senders(n) == {u \in UserIds : ~ValidUserId(u)} \cup Callers(n)

\* the request bodies tried when n conversations exist: sessionId 0 is an
\* absent sessionId and n + 1 the id of no conversation.  Every userId is
\* tried with a message and as a name-only request, every message with and
\* without a name, and a message with every sessionId.
Bodies(n) ==
  {Body(u, Str(<<"m">>), Undefined, 0) : u \in Senders(n)}
  \cup {Body(u, Undefined, Str(<<"Support">>), 0) : u \in Senders(n)}
  \cup {Body(Str(<<"a">>), m, nm, 0) : m \in Messages, nm \in Names}
  \cup {Body(u, Str(<<"m">>), Undefined, i) : u \in Callers(n), i \in 0 .. n + 1}

\* NextResponse.json(body, { status })
Respond(t, status, body) ==
  [t EXCEPT !.pc = "done", !.status = status, !.body = body]

\* a catch block that answers with the message of the error
CaughtBody_Leak(thrown) == [NoBody EXCEPT !.error = thrown]

\* lines 132-135: the body the catch block answers with
CaughtBody(thrown) == [NoBody EXCEPT !.error = ErrInternal]

\* lines 132-135: the catch block of the handler
Caught(t, thrown) ==
  Respond([t EXCEPT !.thrown = thrown], 500, CaughtBody(thrown))

\* a conversation insert that stores the default name instead of the given one
InsertConversation_DefaultName(userId, name) ==
  /\ conversations' = Append(conversations,
        [id |-> Len(conversations) + 1, user_id |-> userId, name |-> NewChat,
         created_at |-> Len(conversations) + 1])
  /\ titleAttempts' = Append(titleAttempts, 0)
  /\ okTurns' = Append(okTurns, 0)

\* from('conversations').insert({ user_id, name })
InsertConversation(userId, name) ==
  /\ conversations' = Append(conversations,
        [id |-> Len(conversations) + 1, user_id |-> userId, name |-> name,
         created_at |-> Len(conversations) + 1])
  /\ titleAttempts' = Append(titleAttempts, 0)
  /\ okTurns' = Append(okTurns, 0)

NoInsertConversation ==
  UNCHANGED <<conversations, titleAttempts, okTurns>>

\* lines 18-22 and 39-41: a request rejected by validation
Reject(p, t) ==
  /\ turn' = [turn EXCEPT ![p] =
        Respond(t, 400, [NoBody EXCEPT !.error =
           IF ~ValidUserId(t.userId) THEN ErrUserId ELSE ErrMessage])]
  /\ NoInsertConversation
  /\ UNCHANGED <<turns, storeFaults>>

\* lines 24-37: a name-only request creates a named conversation
CreateNamed(p, t) ==
  \E error \in StoreErrors :
    /\ StoreResult(error)
    /\ turns' = turns + 1
    /\ IF error
       THEN /\ turn' = [turn EXCEPT ![p] =
                  Respond(t, 500, [NoBody EXCEPT !.error = ErrNamed])]
            /\ NoInsertConversation
       ELSE /\ InsertConversation(t.userId.val, t.name.val)
            /\ turn' = [turn EXCEPT ![p] =
                  Respond([t EXCEPT !.conversationId = Len(conversations) + 1,
                                    !.eff.convs = 1],
                          200, [NoBody EXCEPT !.sessionId = Len(conversations) + 1])]

\* lines 43-69: find or create the conversation of the message
Resolve(p, t) ==
  \E error \in StoreErrors :
    /\ StoreResult(error)
    /\ turns' = turns + 1
    /\ IF t.sessionId = 0
       THEN IF error
            THEN /\ turn' = [turn EXCEPT ![p] =
                       Respond(t, 500, [NoBody EXCEPT !.error = ErrStart])]
                 /\ NoInsertConversation
            ELSE /\ InsertConversation(t.userId.val, NewChat)
                 /\ turn' = [turn EXCEPT ![p] =
                       [t EXCEPT !.pc = "saveUser", !.eff.convs = 1,
                                 !.conversationId = Len(conversations) + 1]]
       ELSE /\ NoInsertConversation
            /\ IF OwnershipVerified(error, t.sessionId, t.userId.val)
               THEN turn' = [turn EXCEPT ![p] =
                       [t EXCEPT !.pc = "saveUser", !.conversationId = t.sessionId]]
               ELSE turn' = [turn EXCEPT ![p] =
                       Respond(t, 404, [NoBody EXCEPT !.error = ErrNotFound])]

\* lines 18-69: validation and conversation resolution of the request body b
Handle(p, b) ==
  LET t == [IdleTurn EXCEPT !.userId = b.userId, !.message = b.message,
                            !.name = b.name, !.sessionId = b.sessionId,
                            !.msgBase = Len(messages)]
  IN  IF ~ValidUserId(b.userId) THEN Reject(p, t)
      ELSE IF NamedCreation(b.message, b.name) THEN CreateNamed(p, t)
      ELSE IF ~ValidMessage(b.message) THEN Reject(p, t)
      ELSE Resolve(p, t)

\* lines 6-69: a request comes in
POST(p) ==
  /\ turn[p].pc = "idle"
  /\ turns < MaxTurns
  /\ \E b \in Bodies(Len(conversations)) : Handle(p, b)
  /\ UNCHANGED <<messages, memories, titleTasks, llmFaults, lastOkMem, page>>

\* from('messages').insert({ conversation_id, sender, content })
InsertMessage(conversationId, sender, content) ==
  Append(messages,
         [id |-> Len(messages) + 1, conversation_id |-> conversationId,
          sender |-> sender, content |-> content, created_at |-> Len(messages) + 1])

\* a handler that goes on when the user message could not be saved
SaveUserFailed_Ignored(msgError) == FALSE

\* line 76: if (msgError) throw
SaveUserFailed(msgError) == msgError

\* lines 71-76: save the user message
SaveUserMessage(p) ==
  /\ turn[p].pc = "saveUser"
  /\ \E msgError \in StoreErrors :
       /\ StoreResult(msgError)
       /\ messages' = IF msgError THEN messages
                      ELSE InsertMessage(turn[p].conversationId, "user",
                                         turn[p].message.val)
       /\ turn' = IF SaveUserFailed(msgError)
                  THEN [turn EXCEPT ![p] = Caught(turn[p], ThrownSaveUser)]
                  ELSE [turn EXCEPT ![p].pc = "fetch",
                                    ![p].eff.user = IF msgError THEN 0 ELSE 1,
                                    ![p].userMsgId = IF msgError THEN 0
                                                     ELSE Len(messages) + 1]
  /\ UNCHANGED <<conversations, memories, titleTasks, turns, llmFaults,
                 titleAttempts, okTurns, lastOkMem, page>>
\* line 109: the selected columns of the history rows
ConversationHistory(rows) ==
  [i \in DOMAIN rows |-> [sender |-> rows[i].sender, content |-> rows[i].content]]

\* lines 79-84: the history read of Promise.all
FetchHistory(p) ==
  /\ turn[p].pc = "fetch"
  /\ ~turn[p].histDone
  /\ \E error \in StoreErrors, rows \in SelectMessages(turn[p].conversationId) :
       /\ StoreResult(error)
       /\ turn' = [turn EXCEPT ![p].histDone = TRUE,
                               ![p].historyResult =
                                  IF error THEN [error |-> TRUE, data |-> <<>>]
                                  ELSE [error |-> FALSE, data |-> ConversationHistory(rows)]]
  /\ UNCHANGED <<conversations, messages, memories, titleTasks, turns, llmFaults,
                 titleAttempts, okTurns, lastOkMem, page>>

\* a getMemories that does not look at the error
getMemoriesRows_IgnoreError(error, rows) == rows

\* memory.ts lines 24-29: the rows whose contents getMemories returns
getMemoriesRows(error, rows) == IF error THEN <<>> ELSE rows

\* memory.ts lines 24-29: what getMemories returns
getMemories(error, rows) ==
  [i \in DOMAIN getMemoriesRows(error, rows) |-> getMemoriesRows(error, rows)[i].content]

\* line 85 and memory.ts lines 17-30: the memory read of Promise.all
GetMemories(p) ==
  /\ turn[p].pc = "fetch"
  /\ ~turn[p].memDone
  /\ \E error \in StoreErrors, rows \in SelectMemories(turn[p].userId.val) :
       LET u == turn[p].userId.val
           ids == {r.id : r \in Range(getMemoriesRows(error, rows))}
       IN
       /\ StoreResult(error)
       /\ turn' = [turn EXCEPT ![p].memDone = TRUE,
                               ![p].memError = error,
                               ![p].memories = getMemories(error, rows),
                               ![p].memRows = getMemoriesRows(error, rows)]
       /\ lastOkMem' = IF error THEN lastOkMem ELSE [lastOkMem EXCEPT ![u] = ids]
  /\ UNCHANGED <<conversations, messages, memories, titleTasks, turns, llmFaults,
                 titleAttempts, okTurns, page>>

\* a first-message test that does not look at the length of the history
IsFirstMessage_AnyLength(data) == Len(data) >= 1 /\ data[1].sender = "user"

\* line 97: the fetched history is the conversation's first message
IsFirstMessage(data) == Len(data) = 1 /\ data[1].sender = "user"

\* lines 94-107: the join of Promise.all, the history error check and the
\* fire-and-forget title generation
AutoTitle(p) ==
  /\ turn[p].pc = "fetch"
  /\ turn[p].histDone /\ turn[p].memDone
  /\ IF turn[p].historyResult.error
     THEN /\ turn' = [turn EXCEPT ![p] = Caught(turn[p], ThrownHistory)]
          /\ UNCHANGED <<titleTasks, titleAttempts>>
     ELSE IF IsFirstMessage(turn[p].historyResult.data)
     THEN /\ turn' = [turn EXCEPT ![p].pc = "generate", ![p].eff.title = 1]
          /\ titleTasks' = titleTasks \cup
                {[conversationId |-> turn[p].conversationId,
                  firstMessage |-> turn[p].message.val]}
          /\ titleAttempts' = [titleAttempts EXCEPT ![turn[p].conversationId] = @ + 1]
     ELSE /\ turn' = [turn EXCEPT ![p].pc = "generate"]
          /\ UNCHANGED <<titleTasks, titleAttempts>>
  /\ UNCHANGED <<conversations, messages, memories, turns, storeFaults, llmFaults,
                 okTurns, lastOkMem, page>>

\* clientUtils.ts lines 38-45: a history entry as a turn of the completion API
toGroqMessage(entry) ==
  IF entry.sender = "user"
  THEN [role |-> "user", content |-> entry.content]
  ELSE [role |-> "assistant", content |-> entry.content]

RECURSIVE memoryLines(_)
\* clientUtils.ts line 64: memories.map(m => `- ${m}`).join
memoryLines(facts) ==
  IF facts = <<>> THEN <<>>
  ELSE <<"- ">> \o Head(facts) \o memoryLines(Tail(facts))

\* clientUtils.ts lines 63-65
memoryContext(facts) ==
  IF Len(facts) > 0
  THEN <<"Relevant memories/facts about this user:">> \o memoryLines(facts)
  ELSE <<>>

\* clientUtils.ts lines 68-82: the preamble with the memory context in it
systemPrompt(facts) ==
  <<"You are a helpful support agent">> \o memoryContext(facts)
    \o <<"CRITICAL INSTRUCTION">>

\* clientUtils.ts lines 85-89: the turns sent to the completion capability
GroqMessages(history, userMessage, facts) ==
  <<[role |-> "system", content |-> systemPrompt(facts)]>>
    \o [i \in DOMAIN history |-> toGroqMessage(history[i])]
    \o <<[role |-> "user", content |-> userMessage]>>

\* clientUtils.ts lines 91-111: the reply for each outcome of the completion call
generateAIResponse(outcome) ==
  CASE outcome = "throw" -> ApologyError
    [] outcome = "empty" -> ApologyEmpty
    [] OTHER -> Reply

\* line 115: invoke the completion capability
GenerateAIResponse(p) ==
  /\ turn[p].pc = "generate"
  /\ \E outcome \in LlmOutcomes(GenOutcomes) :
       /\ LlmResult(outcome)
       /\ turn' = [turn EXCEPT ![p].pc = "saveAI", ![p].genOutcome = outcome,
                               ![p].aiResponse = generateAIResponse(outcome),
                               ![p].sent = GroqMessages(turn[p].historyResult.data,
                                                        turn[p].message.val,
                                                        turn[p].memories),
                               ![p].eff.gen = 1]
  /\ UNCHANGED <<conversations, messages, memories, titleTasks, turns, storeFaults,
                 titleAttempts, okTurns, lastOkMem, page>>

\* lines 117-120: save the reply; the result of the insert is not looked at
SaveAIResponse(p) ==
  /\ turn[p].pc = "saveAI"
  /\ \E error \in StoreErrors :
       /\ StoreResult(error)
       /\ IF error
          THEN /\ turn' = [turn EXCEPT ![p].pc = "extract", ![p].sent = <<>>]
               /\ UNCHANGED messages
          ELSE /\ messages' = InsertMessage(turn[p].conversationId, "ai",
                                            turn[p].aiResponse)
               /\ turn' = [turn EXCEPT ![p].pc = "extract", ![p].eff.ai = 1,
                                       ![p].sent = <<>>,
                                       ![p].aiMsgId = Len(messages) + 1]
  /\ UNCHANGED <<conversations, memories, titleTasks, turns, llmFaults,
                 titleAttempts, okTurns, lastOkMem, page>>

\* an extraction that keeps the raw text when it cannot be parsed
newFacts_KeepRaw(outcome) ==
  CASE outcome = "facts" -> << <<"f1">>, <<"f2">> >>
    [] outcome = "unparseable" -> << <<"raw">> >>
    [] OTHER -> <<>>

\* memory.ts lines 60-71: the fact list for each outcome of the extraction call
newFacts(outcome) ==
  IF outcome = "facts" THEN << <<"f1">>, <<"f2">> >> ELSE <<>>

\* memory.ts lines 75-80: one insert statement for all facts
InsertMemories(userId, facts) ==
  memories \o [i \in 1 .. Len(facts) |->
                 [id |-> Len(memories) + i, user_id |-> userId, content |-> facts[i],
                  created_at |-> IF memories = <<>> THEN 1
                                 ELSE memories[Len(memories)].created_at + 1]]

\* lines 122-130 and memory.ts lines 36-88: extract and store facts, then answer
SummarizeAndStoreFacts(p) ==
  /\ turn[p].pc = "extract"
  /\ \E outcome \in LlmOutcomes(ExtractOutcomes) :
     \E error \in IF Len(newFacts(outcome)) > 0 THEN StoreErrors ELSE {FALSE} :
       LET facts == newFacts(outcome)
           stored == Len(facts) > 0 /\ ~error
           t == [turn[p] EXCEPT !.extractOutcome = outcome, !.eff.extract = 1,
                                !.extractError = error,
                                !.eff.mems = IF stored THEN Len(facts) ELSE 0]
       IN
       /\ LlmResult(outcome)
       /\ StoreResult(error)
       /\ memories' = IF stored THEN InsertMemories(t.userId.val, facts) ELSE memories
       /\ turn' = [turn EXCEPT ![p] =
             Respond(t, 200, [NoBody EXCEPT !.reply = t.aiResponse,
                                            !.sessionId = t.conversationId])]
  /\ okTurns' = [okTurns EXCEPT ![turn[p].conversationId] = @ + 1]
  /\ UNCHANGED <<conversations, messages, titleTasks, turns, titleAttempts,
                 lastOkMem, page>>

\* clientUtils.ts line 134: content?.trim() || 'New Conversation'
TitleOf(content) ==
  IF content.type = "string" /\ trim(content.val) # <<>>
  THEN trim(content.val) ELSE NewConversation

\* the content of the completion for each outcome of the titling call
TitleContent(outcome) ==
  CASE outcome = "ok" -> Str(<<" ">> \o Title)
    [] outcome = "blank" -> Str(<<" ">>)
    [] OTHER -> Undefined

\* clientUtils.ts lines 127-138: what generateChatTitle resolves to
generateChatTitle(outcome) ==
  IF outcome = "throw" THEN NewConversation ELSE TitleOf(TitleContent(outcome))

\* a name update that only replaces the default name
UpdateName_OnlyDefault(id, title) ==
  IF conversations[id].name = NewChat
  THEN [conversations EXCEPT ![id].name = title] ELSE conversations

\* lines 99-102: from('conversations').update({ name: title }).eq('id', id)
UpdateName(id, title) == [conversations EXCEPT ![id].name = title]

\* lines 98-106: the title callback
GenerateChatTitle(task) ==
  /\ task \in titleTasks
  /\ titleTasks' = titleTasks \ {task}
  /\ \E outcome \in LlmOutcomes(TitleOutcomes), error \in StoreErrors :
       /\ LlmResult(outcome)
       /\ StoreResult(error)
       /\ conversations' =
            IF error THEN conversations
            ELSE UpdateName(task.conversationId, generateChatTitle(outcome))
  /\ UNCHANGED <<messages, memories, turn, turns, titleAttempts,
                 okTurns, lastOkMem, page>>

\* the response has been sent; the invocation ends
Finish(p) ==
  /\ turn[p].pc = "done"
  /\ turn' = [turn EXCEPT ![p] = IdleTurn]
  /\ UNCHANGED <<conversations, messages, memories, titleTasks, turns, storeFaults,
                 llmFaults, titleAttempts, okTurns, lastOkMem, page>>

ErrHistory == "Failed to retrieve message history."

\* history/route.ts lines 31-43: the answer of the history endpoint
HistoryResponse(error, rows) ==
  IF error THEN [status |-> 500, body |-> [NoBody EXCEPT !.error = ErrHistory]]
  ELSE [status |-> 200,
        body |-> [NoBody EXCEPT !.messages =
                    [i \in DOMAIN rows |-> [sender |-> rows[i].sender,
                                            content |-> rows[i].content,
                                            created_at |-> rows[i].created_at]]]]

\* history/route.ts lines 4-49: GET with a sessionId (n + 1: of no conversation)
GET(p) ==
  /\ turn[p].pc = "idle"
  /\ \E sessionId \in 1 .. Len(conversations) + 1, error \in StoreErrors :
     \E rows \in SelectMessages(sessionId) :
       /\ StoreResult(error)
       /\ turn' = [turn EXCEPT ![p] =
             Respond([IdleTurn EXCEPT !.route = "history", !.sessionId = sessionId,
                                      !.msgBase = Len(messages)],
                     HistoryResponse(error, rows).status,
                     HistoryResponse(error, rows).body)]
  /\ UNCHANGED <<conversations, messages, memories, titleTasks, turns, llmFaults,
                 titleAttempts, okTurns, lastOkMem, page>>

\* one request at a time; title callbacks run in the background
Next ==
  \/ POST("p1")
  \/ SaveUserMessage("p1")
  \/ FetchHistory("p1")
  \/ GetMemories("p1")
  \/ AutoTitle("p1")
  \/ GenerateAIResponse("p1")
  \/ SaveAIResponse("p1")
  \/ SummarizeAndStoreFacts("p1")
  \/ \E task \in titleTasks : GenerateChatTitle(task)
  \/ Finish("p1")

Spec == Init /\ [][Next]_vars

\* the chat requests together with reads of the history endpoint, which a
\* second invocation serves while the first handles or has answered a turn
NextHistory ==
  \/ Next
  \/ GET("p2")
  \/ Finish("p2")

SpecHistory == Init /\ [][NextHistory]_vars

\* the store after two complete turns of user "a" on one conversation (message
\* "m", reply saved, two facts stored by each turn, title callback done; the
\* second turn read the two facts of the first)
SeededStore ==
  /\ page = ClosedPage
  /\ conversations = <<[id |-> 1, user_id |-> <<"a">>, name |-> Title, created_at |-> 1]>>
  /\ messages = [i \in 1 .. 4 |->
                   [id |-> i, conversation_id |-> 1,
                    sender |-> IF i % 2 = 1 THEN "user" ELSE "ai",
                    content |-> IF i % 2 = 1 THEN <<"m">> ELSE Reply,
                    created_at |-> i]]
  /\ memories = [i \in 1 .. 4 |->
                   [id |-> i, user_id |-> <<"a">>,
                    content |-> IF i % 2 = 1 THEN <<"f1">> ELSE <<"f2">>,
                    created_at |-> (i + 1) \div 2]]
  /\ turn = [p \in Procs |-> IdleTurn]
  /\ titleTasks = {}
  /\ storeFaults = 0
  /\ llmFaults = 0
  /\ titleAttempts = <<1>>
  /\ okTurns = <<2>>
  /\ lastOkMem = [u \in ValidUsers |-> IF u = <<"a">> THEN {1, 2} ELSE {}]

\* the turns that built the store are counted as one request
InitSeeded == SeededStore /\ turns = 1

\* the request bodies of one user working in several tabs: a name-only
\* request, and a message without sessionId or on an existing conversation
TabBodies(n) ==
  {Body(Str(<<"a">>), Undefined, Str(<<"Support">>), 0)}
  \cup {Body(Str(<<"a">>), Str(<<"m">>), Undefined, i) : i \in 0 .. n}

\* lines 6-69: a request of one of the tabs comes in
TabPOST(p) ==
  /\ turn[p].pc = "idle"
  /\ turns < MaxTurns
  /\ \E b \in TabBodies(Len(conversations)) : Handle(p, b)
  /\ UNCHANGED <<messages, memories, titleTasks, llmFaults, lastOkMem, page>>

\* two invocations of the handler run at the same time; each await is a step.
\* The invocations are interchangeable, so a request that comes in while both
\* are idle is taken to be served by "p1".
NextConcurrent ==
  \/ \E p \in Procs :
        \/ TabPOST(p) /\ (p = "p2" => turn["p1"].pc # "idle")
        \/ SaveUserMessage(p)
        \/ FetchHistory(p)
        \/ GetMemories(p)
        \/ AutoTitle(p)
        \/ GenerateAIResponse(p)
        \/ SaveAIResponse(p)
        \/ SummarizeAndStoreFacts(p)
        \/ Finish(p)
  \/ \E task \in titleTasks : GenerateChatTitle(task)

SpecConcurrent == Init /\ [][NextConcurrent]_vars

\* the same requests, started from a store that already holds two turns
SpecSeeded == InitSeeded /\ [][Next]_vars

\* Spec reaches the seeded store (TLC finds this invariant violated)
SeededUnreachable == ~SeededStore

\* ------------------------------------------------------- the chat page
\* page.tsx line 27
MAX_NAME_CHAR_COUNT == 20

\* what can be typed into the name dialog
NameInputs ==
  {<<" ">>, <<"a">>, <<" ", "A", " ">>, <<"A", "b">>,
   [i \in 1 .. MAX_NAME_CHAR_COUNT + 1 |-> "x"]}

\* String.prototype.toLowerCase
toLowerCase(s) ==
  [i \in DOMAIN s |-> CASE s[i] = "A" -> "a" [] s[i] = "B" -> "b" [] OTHER -> s[i]]

\* part_001 lines 8-11: localStorage.getItem(USER_NAME_LOCAL_STORAGE_KEY)
getStoredUserName(storage) == storage.name

\* clientUtils.ts lines 15-18: the setStoredUserName that stores the trimmed
\* name as it was typed
setStoredUserName_AsTyped(storage, name) ==
  [name |-> Str(trim(name)), display |-> Str(trim(name))]

\* part_001 lines 26-31: the lower-cased name under the user-name key, the
\* name as typed under the display key
setStoredUserName(storage, name) ==
  [name |-> Str(toLowerCase(trim(name))), display |-> Str(trim(name))]

\* part_002 lines 31-35: the sessions of a user, newest first
SelectSessions(userId) ==
  {[i \in DOMAIN rows |-> [id |-> rows[i].id, name |-> rows[i].name,
                           created_at |-> rows[i].created_at]] :
     rows \in NewestFirst({c \in Range(conversations) : c.user_id = userId})}

\* page.tsx lines 30-44: the React state of a page that was just loaded; due
\* is whether the session list is to be loaded, msgDue whether the message
\* list is, pending the request the page waits for (isCreatingChat,
\* isLoading), sendId the id of the message being sent, listed whether the
\* session list was loaded in this visit, and loaded the selected conversation
\* once the page has put its messages into the message list (0 before that)
FreshPage ==
  [open |-> TRUE, visit |-> page.visit, storage |-> page.storage,
   userId |-> Undefined, sessionId |-> 0, conversations |-> <<>>,
   messages |-> <<>>,
   isNameDialogOpen |-> FALSE, isNewChatDialogOpen |-> FALSE,
   due |-> FALSE, msgDue |-> FALSE, pending |-> "none", sendId |-> 0,
   toast |-> "",
   enteredAs |-> page.enteredAs, enteredVisit |-> page.enteredVisit,
   made |-> page.made, listed |-> FALSE, loaded |-> 0]

\* what stays of a page that is left
LeftPage ==
  [open |-> FALSE, visit |-> page.visit, storage |-> page.storage,
   enteredAs |-> page.enteredAs, enteredVisit |-> page.enteredVisit,
   made |-> page.made]

ServerIdle ==
  UNCHANGED <<conversations, messages, memories, turn, titleTasks, turns,
              storeFaults, llmFaults, titleAttempts, okTurns, lastOkMem>>

\* page.tsx lines 48-55: the page is opened; the stored name becomes the userId
OpenPage ==
  /\ ~page.open
  /\ page.visit < MaxVisits
  /\ LET storedName == getStoredUserName(page.storage)
     IN  page' = [FreshPage EXCEPT !.visit = @ + 1,
                                   !.userId = IF Truthy(storedName) THEN storedName
                                              ELSE Undefined,
                                   !.isNameDialogOpen = ~Truthy(storedName),
                                   !.due = Truthy(storedName)]
  /\ ServerIdle

\* page.tsx lines 110-124: the name dialog is submitted
handleNameSubmit(nameInput) ==
  /\ page.open /\ page.isNameDialogOpen
  /\ LET trimmedName == trim(nameInput)
     IN  page' =
           IF trimmedName = <<>> THEN page
           ELSE IF Len(trimmedName) > MAX_NAME_CHAR_COUNT
           THEN [page EXCEPT !.toast = "Name too long"]
           ELSE [page EXCEPT !.storage = setStoredUserName(page.storage, trimmedName),
                             !.userId = Str(trimmedName),
                             !.isNameDialogOpen = FALSE,
                             !.toast = "Welcome",
                             !.due = TRUE,
                             !.enteredAs = Str(trimmedName),
                             !.enteredVisit = page.visit]
  /\ ServerIdle

\* page.tsx lines 57-77 and part_002 lines 4-47: the session list is loaded
\* (the effect of lines 98-100 runs it when userId or sessionId has changed)
fetchConversations ==
  /\ page.open /\ page.due /\ page.pending = "none"
  /\ Truthy(page.userId)
  /\ \E error \in StoreErrors :
     \E data \in SelectSessions(page.userId.val) :
       /\ StoreResult(error)
       /\ page' =
            IF error
            THEN [page EXCEPT !.due = FALSE,
                              !.toast = "Could not load your conversations."]
            ELSE [page EXCEPT !.conversations = data,
                              !.listed = TRUE,
                              !.sessionId = IF page.sessionId = 0 /\ Len(data) > 0
                                            THEN data[1].id ELSE @,
                              !.msgDue = IF page.sessionId = 0 /\ Len(data) > 0
                                         THEN TRUE ELSE @,
                              !.isNewChatDialogOpen =
                                 IF page.sessionId = 0 /\ Len(data) = 0 THEN TRUE ELSE @,
                              !.due = page.sessionId = 0 /\ Len(data) > 0]
  /\ UNCHANGED <<conversations, messages, memories, turn, titleTasks, turns,
                 llmFaults, titleAttempts, okTurns, lastOkMem>>

\* page.tsx lines 126-136: the new-chat button sends a name-only request
handleCreateChat ==
  /\ page.open /\ page.pending = "none"
  /\ Truthy(page.userId)
  /\ turn["p1"].pc = "idle"
  /\ turns < MaxTurns
  /\ Handle("p1", Body(page.userId, Undefined, Str(<<"New Chat...">>), 0))
  /\ page' = [page EXCEPT !.pending = "create"]
  /\ UNCHANGED <<messages, memories, titleTasks, llmFaults, lastOkMem>>

\* page.tsx lines 138-149: the answer to the name-only request arrives
CreateChatResponse ==
  /\ page.open /\ page.pending = "create"
  /\ turn["p1"].pc = "done"
  /\ turn' = [turn EXCEPT !["p1"] = IdleTurn]
  /\ page' =
       IF turn["p1"].status = 200
       THEN [page EXCEPT !.pending = "none",
                         !.sessionId = turn["p1"].body.sessionId,
                         !.messages = <<>>,
                         !.loaded = turn["p1"].body.sessionId,
                         !.due = TRUE,
                         !.msgDue = TRUE,
                         !.toast = "New conversation started",
                         !.made = IF page.visit = page.enteredVisit
                                  THEN @ \cup {turn["p1"].body.sessionId} ELSE @]
       ELSE [page EXCEPT !.pending = "none", !.toast = "Failed to create new chat"]
  /\ UNCHANGED <<conversations, messages, memories, titleTasks, turns, storeFaults,
                 llmFaults, titleAttempts, okTurns, lastOkMem>>

\* the page is left; localStorage stays
ClosePage ==
  /\ page.open /\ page.pending = "none"
  /\ page' = LeftPage
  /\ ServerIdle

NextPage ==
  \/ OpenPage
  \/ \E nameInput \in NameInputs : handleNameSubmit(nameInput)
  \/ fetchConversations
  \/ handleCreateChat
  \/ CreateChatResponse
  \/ ClosePage

\* one browser using the page over several visits
SpecPage == Init /\ [][NextPage]_vars

\* page.tsx line 26
MAX_CHAR_COUNT == 400

\* what is typed into the message box
SendInputs ==
  {<<" ">>, <<"m">>, <<" ", "m", " ">>, [i \in 1 .. MAX_CHAR_COUNT + 1 |-> "x"]}

\* page.tsx lines 89-90: the rows of the history endpoint as the page shows
\* them; they carry no id (0), and `of` is the conversation they were read for
Shown(rows, sessionId) ==
  [i \in DOMAIN rows |-> [id |-> 0, sender |-> rows[i].sender,
                          content |-> rows[i].content, of |-> sessionId]]

\* page.tsx lines 253-267: a conversation of the sidebar is clicked; the
\* effects of lines 98-104 then load the session list and the messages again
selectConversation(id) ==
  /\ page.open
  /\ \E c \in Range(page.conversations) : c.id = id
  /\ id # page.sessionId
  /\ page' = [page EXCEPT !.sessionId = id, !.due = TRUE, !.msgDue = TRUE,
                          !.loaded = 0]
  /\ ServerIdle

\* page.tsx lines 79-96 and 102-104, history/route.ts lines 31-43: the
\* messages of the selected conversation are loaded
fetchMessages ==
  /\ page.open /\ page.msgDue
  /\ page.sessionId # 0
  /\ \E error \in StoreErrors :
     \E rows \in SelectMessages(page.sessionId) :
       LET response == HistoryResponse(error, rows)
       IN  /\ StoreResult(error)
           /\ page' =
                IF response.status # 200
                THEN [page EXCEPT !.msgDue = FALSE,
                                  !.toast = "Could not load message history."]
                ELSE [page EXCEPT !.messages = Shown(response.body.messages,
                                                     page.sessionId),
                                  !.loaded = page.sessionId,
                                  !.msgDue = FALSE]
  /\ UNCHANGED <<conversations, messages, memories, turn, titleTasks, turns,
                 llmFaults, titleAttempts, okTurns, lastOkMem>>

\* page.tsx lines 152-193: the message form is submitted; the message is shown
\* at once and sent with the sessionId the page has at that moment
handleSendMessage(input) ==
  /\ page.open /\ page.pending = "none"
  /\ Truthy(page.userId)
  /\ IF trim(input) = <<>>
     THEN /\ page' = [page EXCEPT !.toast = "Message cannot be empty"]
          /\ ServerIdle
     ELSE IF Len(input) > MAX_CHAR_COUNT
     THEN /\ page' = [page EXCEPT !.toast = "Message too long"]
          /\ ServerIdle
     ELSE IF page.sessionId = 0
     THEN /\ page' = [page EXCEPT !.isNewChatDialogOpen = TRUE]
          /\ ServerIdle
     ELSE /\ turn["p1"].pc = "idle"
          /\ turns < MaxTurns
          /\ Handle("p1", Body(page.userId, Str(trim(input)), Undefined,
                               page.sessionId))
          /\ page' = [page EXCEPT !.pending = "send",
                                  !.sendId = turns + 1,
                                  !.messages = Append(@, [id |-> turns + 1,
                                                          sender |-> "user",
                                                          content |-> trim(input),
                                                          of |-> page.sessionId])]
          /\ UNCHANGED <<messages, memories, titleTasks, llmFaults, lastOkMem>>

\* page.tsx lines 195-212: the answer to the message arrives; the reply is
\* appended to the message list, or the message shown at once is taken out
SendResponse ==
  /\ page.open /\ page.pending = "send"
  /\ turn["p1"].pc = "done"
  /\ turn' = [turn EXCEPT !["p1"] = IdleTurn]
  /\ page' =
       IF turn["p1"].status = 200
       THEN [page EXCEPT !.pending = "none", !.sendId = 0,
                         !.messages = Append(@, [id |-> 0, sender |-> "ai",
                                                 content |-> turn["p1"].body.reply,
                                                 of |-> turn["p1"].conversationId])]
       ELSE [page EXCEPT !.pending = "none", !.sendId = 0,
                         !.toast = "Failed to send message",
                         !.messages = SelectSeq(@, LAMBDA m : m.id # page.sendId)]
  /\ UNCHANGED <<conversations, messages, memories, titleTasks, turns, storeFaults,
                 llmFaults, titleAttempts, okTurns, lastOkMem>>

\* the store already holds a conversation of user "a"; the requests of the
\* page are counted from here
InitChat == SeededStore /\ turns = 0

\* one visit of the page with its message list, and the server handling what
\* the page sends
NextChat ==
  \/ OpenPage
  \/ \E nameInput \in NameInputs : handleNameSubmit(nameInput)
  \/ fetchConversations
  \/ handleCreateChat
  \/ CreateChatResponse
  \/ \E id \in DOMAIN conversations : selectConversation(id)
  \/ fetchMessages
  \/ \E input \in SendInputs : handleSendMessage(input)
  \/ SendResponse
  \/ SaveUserMessage("p1")
  \/ FetchHistory("p1")
  \/ GetMemories("p1")
  \/ AutoTitle("p1")
  \/ GenerateAIResponse("p1")
  \/ SaveAIResponse("p1")
  \/ SummarizeAndStoreFacts("p1")
  \/ \E task \in titleTasks : GenerateChatTitle(task)

SpecChat == InitChat /\ [][NextChat]_vars

\* ---------------------------------------------------------------- claims
\* a request that passed validation and is not a name-only creation
ChatTurn(t) ==
  /\ t.userId.type = "string" /\ trim(t.userId.val) # <<>>
  /\ t.message.type = "string" /\ trim(t.message.val) # <<>>

OwnedBy(id, user) == \E c \in Range(conversations) : c.id = id /\ c.user_id = user

\* the row the turn t inserted for the given sender, if it is in the table
Persisted(t, id, sender, content) ==
  /\ id \in DOMAIN messages
  /\ messages[id].conversation_id = t.conversationId
  /\ messages[id].sender = sender
  /\ messages[id].content = content

\* the ai rows put on the turn's conversation since the request came in
NewAiRows(t) ==
  {m \in Range(messages) : /\ m.conversation_id = t.conversationId
                           /\ m.sender = "ai"
                           /\ m.id > t.msgBase}

\* C1: a chat turn whose sessionId names no conversation of the calling user
\* (absent, or owned by another user) is answered 404 in its first store
\* access; the store is left as it was and the turn ends there, so no
\* message, conversation or memory row is added and no completion is called.
C1_ForeignSessionRejected ==
  [][\A p \in Procs :
       (/\ turn[p].pc = "idle" /\ turn'[p].pc # "idle"
        /\ ChatTurn(turn'[p])
        /\ turn'[p].sessionId # 0
        /\ ~OwnedBy(turn'[p].sessionId, turn'[p].userId.val))
       => /\ turn'[p].pc = "done"
          /\ turn'[p].status = 404
          /\ turn'[p].body = [NoBody EXCEPT !.error = ErrNotFound]
          /\ turn'[p].eff = NoEffect
          /\ UNCHANGED <<conversations, messages, memories, titleTasks>>]_vars

C1_Witness ==
  \E p \in Procs :
    /\ turn[p].pc = "done" /\ turn[p].status = 404 /\ ChatTurn(turn[p])
    /\ turn[p].sessionId \in DOMAIN conversations
    /\ conversations[turn[p].sessionId].user_id # turn[p].userId.val

\* C2: a turn whose completion call failed (error or empty body) ends with
\* 200 and exactly one new ai message on the conversation, whose content is
\* the apology and is the reply returned.
C2_ApologyPersisted ==
  \A p \in Procs :
    (turn[p].pc = "done" /\ turn[p].genOutcome \in {"throw", "empty"})
    => /\ turn[p].status = 200
       /\ turn[p].body.reply \in {ApologyError, ApologyEmpty}
       /\ Cardinality(NewAiRows(turn[p])) = 1
       /\ \A m \in NewAiRows(turn[p]) : m.content = turn[p].body.reply

\* what a turn aborted by a failed user-message insert or history read leaves
AbortedTurn(t, convs) ==
  /\ t.status = 500
  /\ t.body = [NoBody EXCEPT !.error = ErrInternal]
  /\ t.eff.gen = 0 /\ t.eff.extract = 0 /\ t.eff.title = 0
  /\ t.eff.ai = 0 /\ t.eff.mems = 0
  /\ NewAiRows(t) = {}
  /\ t.thrown = ThrownSaveUser => t.eff.user = 0
  /\ t.thrown = ThrownHistory
       => /\ t.eff.user = 1 /\ t.eff.convs \in convs
          /\ Persisted(t, t.userMsgId, "user", t.message.val)

\* C3 (as stated): a failed user-message insert or history read aborts the
\* turn with the generic 500 body, no generator or extractor call, no ai
\* message and no memory row; after a history failure the saved user message
\* is the only change the turn leaves in the store.
C3_AbortLeavesOnlyUserMessage ==
  \A p \in Procs :
    (turn[p].pc = "done" /\ turn[p].thrown # "") => AbortedTurn(turn[p], {0})

\* C3 (amended): as above, but after a history failure the turn leaves the
\* saved user message and, when the request had no sessionId, the
\* conversation created for it.
C3_AbortLeavesUserMessageAndConversation ==
  \A p \in Procs :
    (turn[p].pc = "done" /\ turn[p].thrown # "")
    => AbortedTurn(turn[p], {IF turn[p].sessionId = 0 THEN 1 ELSE 0})

C3_Witness ==
  \E p \in Procs :
    /\ turn[p].pc = "done" /\ turn[p].thrown = ThrownHistory
    /\ turn[p].sessionId # 0 /\ turn[p].eff.user = 1

C5_FailedTitlingKeepsName ==
  [][(/\ titleTasks' # titleTasks
      /\ titleTasks' \subseteq titleTasks
      /\ llmFaults' = llmFaults + 1)
     => conversations' = conversations]_vars
\* C6: an extraction that gives no facts, an empty response or unparseable
\* output adds no memory row, and the turn answers 200 with the reply that
\* was generated (and saved) before the extraction.
C6_NoFactsNoRows ==
  [][\A p \in Procs :
       (/\ turn[p].pc = "extract" /\ turn'[p].pc = "done"
        /\ turn'[p].extractOutcome \in {"nofacts", "empty", "unparseable"})
       => /\ memories' = memories
          /\ turn'[p].eff.mems = 0
          /\ turn'[p].status = 200
          /\ turn'[p].body.reply = turn[p].aiResponse
          /\ turn[p].aiMsgId # 0
               => Persisted(turn[p], turn[p].aiMsgId, "ai", turn'[p].body.reply)]_vars

C6_Witness ==
  \E p \in Procs :
    /\ turn[p].pc = "done" /\ turn[p].status = 200
    /\ turn[p].extractOutcome = "unparseable"
    /\ turn[p].aiMsgId # 0
    /\ memories # <<>>

\* a memory read, a fact extraction or the insert of the facts failed
SubFailure(t) ==
  \/ t.memError
  \/ t.extractOutcome \in {"throw", "empty", "unparseable"}
  \/ t.extractError

\* C7: once the user message is saved and the history is read, a failed
\* memory read, title generation or fact extraction does not abort the
\* turn: it answers 200 with the generated reply, the messages it saved are
\* still in the store, and a failed memory read counts as an empty fact list.
C7_SubFailuresDegrade ==
  /\ [](\A p \in Procs :
          /\ (turn[p].memDone /\ turn[p].memError) => turn[p].memories = <<>>
          /\ (/\ turn[p].pc = "done" /\ turn[p].eff.user = 1
              /\ ~turn[p].historyResult.error /\ SubFailure(turn[p]))
             => /\ turn[p].status = 200
                /\ turn[p].aiResponse # <<>>
                /\ turn[p].body = [NoBody EXCEPT !.reply = turn[p].aiResponse,
                                                 !.sessionId = turn[p].conversationId]
                /\ Persisted(turn[p], turn[p].userMsgId, "user", turn[p].message.val)
                /\ turn[p].aiMsgId # 0
                     => Persisted(turn[p], turn[p].aiMsgId, "ai", turn[p].aiResponse))
  /\ [][(titleTasks' # titleTasks /\ titleTasks' \subseteq titleTasks)
        => (turn' = turn /\ messages' = messages /\ memories' = memories)]_vars

C7_Witness ==
  \E p \in Procs :
    /\ turn[p].pc = "done" /\ turn[p].status = 200
    /\ turn[p].memError /\ turn[p].extractOutcome = "throw"
    /\ turn[p].aiMsgId # 0
    /\ \E m \in Range(memories) : m.user_id = turn[p].userId.val

Sorted(rows) ==
  \A i, j \in DOMAIN rows : i < j => rows[i].created_at <= rows[j].created_at

\* the list just returned keeps every fact of the last list read without error
Accumulates(rows, earlier) ==
  /\ earlier \subseteq {r.id : r \in Range(rows)}
  /\ Len(rows) >= Cardinality(earlier)

\* C8 (as stated): every list getMemories returns is in non-decreasing
\* created_at order, is no shorter than and holds every fact of the list
\* returned for the same user at an earlier turn.
C8_MemoriesNeverShrink ==
  [][\A p \in Procs :
       (turn[p].pc = "fetch" /\ ~turn[p].memDone /\ turn'[p].memDone)
       => /\ Sorted(turn'[p].memRows)
          /\ Accumulates(turn'[p].memRows, lastOkMem[turn[p].userId.val])]_vars

\* C8 (amended): every list getMemories returns is in non-decreasing
\* created_at order, and every list it returns from a read that did not fail
\* is no shorter than and holds every fact of the lists returned for the
\* same user at earlier turns (a failed read returns the empty list).
C8_SuccessfulReadsNeverShrink ==
  [][\A p \in Procs :
       (turn[p].pc = "fetch" /\ ~turn[p].memDone /\ turn'[p].memDone)
       => /\ Sorted(turn'[p].memRows)
          /\ turn'[p].memError => turn'[p].memRows = <<>>
          /\ ~turn'[p].memError
               => Accumulates(turn'[p].memRows, lastOkMem[turn[p].userId.val])]_vars

C8_Witness ==
  \E p \in Procs :
    /\ turn[p].memDone /\ ~turn[p].memError
    /\ Len(turn[p].memRows) = 4
    /\ turn[p].memRows[1].created_at < turn[p].memRows[4].created_at

\* the rows of a sender on a conversation
RowsOf(id, sender) ==
  {m \in Range(messages) : m.conversation_id = id /\ m.sender = sender}

\* C9: a successful turn without sessionId has created one conversation of
\* the calling user, with exactly one user message and one ai message on it,
\* and answers a non-empty reply and that conversation's id, which passes
\* the ownership check for the same user.
C9_FirstTurnCreatesConversation ==
  \A p \in Procs :
    (/\ turn[p].pc = "done" /\ turn[p].status = 200
     /\ ChatTurn(turn[p]) /\ turn[p].sessionId = 0)
    => /\ turn[p].eff.convs = 1
       /\ OwnedBy(turn[p].body.sessionId, turn[p].userId.val)
       /\ Cardinality(RowsOf(turn[p].body.sessionId, "user")) = 1
       /\ Cardinality(RowsOf(turn[p].body.sessionId, "ai")) = 1
       /\ turn[p].body.reply # <<>>

\* C10: the second turn of a conversation whose first turn succeeded fetches
\* a history of exactly the 2 earlier messages, and a history read after the
\* second turn returns 4 messages.
C10_SecondTurnHistory ==
  \A p \in Procs :
    /\ (/\ turn[p].route = "chat" /\ turn[p].histDone
        /\ ~turn[p].historyResult.error
        /\ okTurns[turn[p].conversationId] = 1
        /\ turn[p].pc # "done"
        /\ Cardinality(RowsOf(turn[p].conversationId, "ai")) = 1
        /\ Cardinality(RowsOf(turn[p].conversationId, "user")) = 2)
       => Len(turn[p].historyResult.data) = 2
    /\ (/\ turn[p].route = "history" /\ turn[p].pc = "done" /\ turn[p].status = 200
        /\ turn[p].sessionId \in DOMAIN conversations
        /\ okTurns[turn[p].sessionId] = 2
        /\ Cardinality(RowsOf(turn[p].sessionId, "ai")) = 2)
       => Len(turn[p].body.messages) = 4

\* a name-only creation request of a valid user has just been handled
NamedCreationStep(p) ==
  /\ turn[p].pc = "idle" /\ turn'[p].pc # "idle"
  /\ turn'[p].route = "chat"
  /\ ValidUserId(turn'[p].userId)
  /\ NamedCreation(turn'[p].message, turn'[p].name)

\* the request created one conversation of its user with its name and
\* answered 200 with nothing but the id of that conversation
NamedConversationCreated(p) ==
  /\ turn'[p].status = 200
  /\ conversations' = Append(conversations,
        [id |-> Len(conversations) + 1, user_id |-> turn'[p].userId.val,
         name |-> turn'[p].name.val, created_at |-> Len(conversations) + 1])
  /\ turn'[p].body = [NoBody EXCEPT !.sessionId = Len(conversations) + 1]

\* the request touched no message, no memory row and no completion call
NoTurnEffects(p) ==
  /\ turn'[p].pc = "done"
  /\ UNCHANGED <<messages, memories, titleTasks, llmFaults>>
  /\ turn'[p].eff.gen = 0 /\ turn'[p].eff.title = 0 /\ turn'[p].eff.extract = 0
  /\ turn'[p].eff.user = 0 /\ turn'[p].eff.ai = 0 /\ turn'[p].eff.mems = 0

\* C11 (as stated): a request with a valid userId, a name and no message
\* creates exactly one conversation of that user with that name, answers only
\* its id as sessionId, persists no message and no memory row and calls
\* neither the generator, the title generator nor the extractor.
C11_NamedCreationCreates ==
  [][\A p \in Procs :
       NamedCreationStep(p) => NamedConversationCreated(p) /\ NoTurnEffects(p)]_vars

\* C11 (amended): as above when the store accepts the insert; when the store
\* rejects it the request answers 500 with the creation error and creates no
\* conversation; in both cases it persists no message and no memory row and
\* makes no completion call.
C11_NamedCreationCreatesOrFails ==
  [][\A p \in Procs :
       NamedCreationStep(p)
       => /\ NoTurnEffects(p)
          /\ \/ NamedConversationCreated(p)
             \/ /\ turn'[p].status = 500
                /\ turn'[p].body = [NoBody EXCEPT !.error = ErrNamed]
                /\ storeFaults' = storeFaults + 1
                /\ conversations' = conversations]_vars

C11_Witness ==
  \E p \in Procs :
    /\ turn[p].pc = "done" /\ turn[p].status = 200
    /\ NamedCreation(turn[p].message, turn[p].name)
    /\ turn[p].body.sessionId \in DOMAIN conversations
    /\ conversations[turn[p].body.sessionId].name = <<"Support">>
    /\ conversations[turn[p].body.sessionId].user_id = <<"b">>
    /\ conversations[1].user_id = <<"a">>
    /\ ~\E m \in Range(messages) : m.conversation_id = turn[p].body.sessionId

\* a request that validation rejects has just been handled
Invalid(t) ==
  \/ ~Truthy(t.userId) \/ t.userId.type # "string" \/ trim(t.userId.val) = <<>>
  \/ /\ ~(~Truthy(t.message) /\ Truthy(t.name))
     /\ (~Truthy(t.message) \/ t.message.type # "string" \/ trim(t.message.val) = <<>>)

FactsOf(u) == {m \in Range(memories) : m.user_id = u}

\* C13: the fact list a turn of user v gives to the generator holds, when the
\* memory read did not fail, every fact stored before by turns of v, on
\* whatever conversation, in the order read, and never a fact stored for
\* another user; the list is what the system prompt of the call carries.
C13_FactsPartitionedByUser ==
  [][\A p \in Procs :
       (turn[p].pc = "generate" /\ turn'[p].pc = "saveAI")
       => LET v == turn[p].userId.val
              rows == turn[p].memRows
          IN  /\ \A i \in DOMAIN rows : rows[i] \in FactsOf(v)
              /\ ~turn[p].memError => Range(rows) = FactsOf(v)
              /\ turn[p].memories = [i \in DOMAIN rows |-> rows[i].content]
              /\ turn'[p].sent[1] = [role |-> "system",
                                     content |-> systemPrompt(turn[p].memories)]]_vars

C13_Witness ==
  \E p \in Procs :
    /\ turn[p].pc = "saveAI" /\ ~turn[p].memError
    /\ turn[p].userId.val = <<"a">>
    /\ turn[p].conversationId = 2
    /\ Len(turn[p].memories) = 2
    /\ conversations[1].user_id = <<"a">>
    /\ \A m \in Range(messages) : m.id < turn[p].msgBase => m.conversation_id = 1
    /\ Len(turn[p].sent[1].content) > Len(systemPrompt(<<>>))

\* C14: the handle getStoredUserName returns equals the userId the page used
\* in the visit in which the name was entered, and once a later visit has
\* loaded the session list, the conversations created in that visit are in it.
C14_HandleStableAcrossVisits ==
  /\ Truthy(getStoredUserName(page.storage))
       => getStoredUserName(page.storage) = page.enteredAs
  /\ (page.open /\ page.visit > page.enteredVisit /\ page.listed /\ ~page.due)
       => page.made \subseteq {c.id : c \in Range(page.conversations)}

\* the messages stored on a conversation before the request came in are the
\* user and ai messages of completed turns
CompletedTurnsBefore(t) ==
  LET rows == SelectSeq(messages, LAMBDA m : m.conversation_id = t.conversationId
                                             /\ m.id <= t.msgBase)
  IN  \A i \in DOMAIN rows : rows[i].sender = IF i % 2 = 1 THEN "user" ELSE "ai"

\* the turns sent are the preamble, the fetched history with user as user and
\* ai as assistant, and the new user message
SentAsDescribed(t) ==
  LET data == t.historyResult.data
  IN  /\ Len(t.sent) = Len(data) + 2
      /\ t.sent[1].role = "system"
      /\ \A i \in DOMAIN data :
           /\ t.sent[i + 1].content = data[i].content
           /\ t.sent[i + 1].role = IF data[i].sender = "user" THEN "user" ELSE "assistant"
      /\ t.sent[Len(t.sent)] = [role |-> "user", content |-> t.message.val]

\* C15: the turns sent to the completion capability are the preamble, the
\* fetched history in timestamp order with roles mapped, and the new user
\* message; on a conversation built from completed turns no two consecutive
\* turns after the preamble carry the same role.
C15_RolesAlternate ==
  \A p \in Procs :
    turn[p].pc = "saveAI"
    => /\ SentAsDescribed(turn[p])
       /\ CompletedTurnsBefore(turn[p])
            => \A i \in 2 .. Len(turn[p].sent) - 1 :
                 turn[p].sent[i].role # turn[p].sent[i + 1].role

\* C16: a chat turn that answers 200 has invoked the extractor exactly once,
\* after the reply was generated and the ai message persisted, and the
\* extraction was over before the answer; a turn that answers an error has
\* not invoked it, and no turn invokes it before its ai-message step.
C16_ExtractorOncePerSuccess ==
  \A p \in Procs :
    /\ (turn[p].pc = "done" /\ turn[p].route = "chat" /\ ChatTurn(turn[p]))
       => /\ turn[p].status = 200
               => /\ turn[p].eff.extract = 1
                  /\ turn[p].extractOutcome \in ExtractOutcomes
                  /\ turn[p].eff.gen = 1
                  /\ turn[p].eff.ai = 1
                  /\ Persisted(turn[p], turn[p].aiMsgId, "ai", turn[p].aiResponse)
          /\ turn[p].status # 200
               => turn[p].eff.extract = 0 /\ turn[p].extractOutcome = "none"
    /\ turn[p].pc \notin {"done", "idle"} => turn[p].eff.extract = 0

\* C18: when a chat turn has answered 200 with reply r and sessionId c, an ai
\* message with content r is stored on c, inserted by that turn, and a history
\* read of c that saw the store as the turn left it holds an ai message with
\* content r.
C18_ReplyPersisted ==
  \A p \in Procs :
    (/\ turn[p].pc = "done" /\ turn[p].route = "chat" /\ turn[p].status = 200
     /\ ChatTurn(turn[p]))
    => /\ \E m \in NewAiRows(turn[p]) :
            /\ m.content = turn[p].body.reply
            /\ m.conversation_id = turn[p].body.sessionId
       /\ \A q \in Procs :
            (/\ turn[q].pc = "done" /\ turn[q].route = "history"
             /\ turn[q].status = 200
             /\ turn[q].msgBase = Len(messages)
             /\ turn[q].sessionId = turn[p].body.sessionId)
            => \E i \in DOMAIN turn[q].body.messages :
                 /\ turn[q].body.messages[i].sender = "ai"
                 /\ turn[q].body.messages[i].content = turn[p].body.reply

\* the turn of p, on a conversation that carries a caller-supplied name, has
\* just passed the first-message test with its own user message being the
\* first one stored on the conversation
FirstTurnOnNamed(p) ==
  /\ turn[p].pc = "fetch" /\ turn'[p].pc # "fetch"
  /\ conversations[turn[p].conversationId].name = <<"Support">>
  /\ \A m \in Range(messages) :
       m.conversation_id = turn[p].conversationId => m.id >= turn[p].userMsgId

\* the turn of p has started a title generation for its conversation
TitleTriggered(p) ==
  /\ turn'[p].pc = "generate" /\ turn'[p].eff.title = 1
  /\ turn[p].historyResult.data = <<[sender |-> "user", content |-> turn[p].message.val]>>
  /\ titleAttempts'[turn[p].conversationId] = titleAttempts[turn[p].conversationId] + 1
  /\ \E task \in titleTasks' : task.conversationId = turn[p].conversationId

\* a title callback has just run for the task
TitleCallback(task) ==
  task \in titleTasks /\ titleTasks' = titleTasks \ {task}

\* the callback has put the generated title on the conversation of the task,
\* whatever its name and owner were, and left every other row as it was
NameOverwritten(task) ==
  \E title \in {Title, NewConversation} :
    conversations' = [conversations EXCEPT ![task.conversationId].name = title]

SawOneMessage(c) ==
  {p \in Procs : /\ turn[p].route = "chat" /\ turn[p].conversationId = c
                 /\ turn[p].histDone /\ ~turn[p].historyResult.error
                 /\ Len(turn[p].historyResult.data) = 1}

\* C17: whatever the interleaving of the turns on a conversation, at most one
\* turn observes a history of exactly one message, so the conversation gets
\* at most one title-generation attempt and at most one name update, which
\* only a title callback makes.
C17_TitledAtMostOnce ==
  /\ [](\A c \in DOMAIN conversations :
          /\ titleAttempts[c] <= 1
          /\ Cardinality(SawOneMessage(c)) <= 1
          /\ Cardinality({task \in titleTasks : task.conversationId = c})
               <= titleAttempts[c])
  /\ [][\A c \in DOMAIN conversations :
          conversations'[c].name # conversations[c].name
          => /\ titleAttempts[c] = 1
             /\ \E task \in titleTasks :
                  task.conversationId = c /\ titleTasks' = titleTasks \ {task}]_vars

C17_Witness ==
  \E p, q \in Procs :
    /\ p # q
    /\ turn[p].conversationId = turn[q].conversationId
    /\ turn[p].pc \in {"generate", "saveAI", "extract"}
    /\ turn[q].pc \in {"generate", "saveAI", "extract"}
    /\ turn[q].userMsgId < turn[p].userMsgId
    /\ Len(turn[q].historyResult.data) = 1 /\ turn[q].eff.title = 1
    /\ Len(turn[p].historyResult.data) = 2 /\ turn[p].eff.title = 0
    /\ titleAttempts[turn[p].conversationId] = 1

\* the senders of the messages stored on a conversation, in insertion order
Senders_Of(c) ==
  LET rows == SelectSeq(messages, LAMBDA m : m.conversation_id = c)
  IN  [i \in DOMAIN rows |-> rows[i].sender]

\* every prefix holds at least as many user messages as ai messages
UserLeads(senders) ==
  \A n \in 0 .. Len(senders) :
    Cardinality({i \in 1 .. n : senders[i] = "user"})
      >= Cardinality({i \in 1 .. n : senders[i] = "ai"})

\* C19: in every reachable state every prefix, in insertion order, of the
\* messages stored on a conversation holds at least as many user messages as
\* ai messages; a turn inserts its ai message only after its own user message
\* was inserted on the same conversation, and stored messages are never
\* changed or removed.
C19_UserMessagesLead ==
  /\ [](\A c \in DOMAIN conversations : UserLeads(Senders_Of(c)))
  /\ [][/\ Len(messages') >= Len(messages)
        /\ SubSeq(messages', 1, Len(messages)) = messages
        /\ \A p \in Procs :
             (turn[p].pc = "saveAI" /\ turn'[p].pc = "extract" /\ messages' # messages)
             => /\ messages' = Append(messages, messages'[Len(messages')])
                /\ messages'[Len(messages')].sender = "ai"
                /\ messages'[Len(messages')].conversation_id = turn[p].conversationId
                /\ turn[p].userMsgId \in DOMAIN messages
                /\ messages[turn[p].userMsgId].sender = "user"
                /\ messages[turn[p].userMsgId].conversation_id = turn[p].conversationId]_vars

C19_Witness ==
  \E c \in DOMAIN conversations :
    /\ Senders_Of(c) = <<"user", "user", "ai", "ai">>
    /\ \E p \in Procs : turn[p].conversationId = c /\ turn[p].pc = "extract"
    /\ storeFaults = MaxStoreFaults

\* the message list is settled on the selected conversation: its messages
\* were loaded (or the list was reset for it) and no load is due
ListSettled ==
  /\ page.open
  /\ page.sessionId # 0
  /\ ~page.msgDue
  /\ page.loaded = page.sessionId

\* C21: once the message list is settled on the selected conversation, every
\* message displayed belongs to that conversation, also when another
\* conversation was selected while a send was in flight: neither the reply nor
\* the rollback of that send changes the list of the conversation selected now.
C21_ListOfSelectedConversation ==
  ListSettled => \A i \in DOMAIN page.messages : page.messages[i].of = page.sessionId


\* the step of a history load that failed
FailedMessageLoad ==
  /\ page.open /\ page.msgDue /\ ~page'.msgDue
  /\ storeFaults' = storeFaults + 1

\* the step of a session-list load that failed
FailedSessionLoad ==
  /\ page.open /\ page.due /\ ~page'.due
  /\ storeFaults' = storeFaults + 1

\* C22: a failed history load shows its notification and leaves the message
\* list empty, and a failed session-list load shows its notification and
\* leaves the conversation list empty, whatever was displayed before the load.
C22_FailedLoadEmptiesList ==
  [][/\ FailedMessageLoad
          => /\ page'.toast = "Could not load message history."
             /\ page'.messages = <<>>
     /\ FailedSessionLoad
          => /\ page'.toast = "Could not load your conversations."
             /\ page'.conversations = <<>>]_vars

====
